---- MODULE Spec2Model ----
(***************************************************************************)
(* GitFlex analysis engine (src/src/lib/github.ts): the response cache,    *)
(* the throttled API client with its error classification, and the         *)
(* analyzeCommitFarming control flow with its four metrics and score; the  *)
(* ScoreCard component's number and label; updateUserAnalysis.             *)
(*                                                                         *)
(* Time is in milliseconds, as Date.now() gives it.  Optional values       *)
(* (undefined in the source) are sequences of length 0 or 1.               *)
(***************************************************************************)
EXTENDS Integers, Sequences, FiniteSets, TLC

\* ------------------------------------------------------------------ bounds
MaxCalls == 3
MaxTicks == 3
MaxRuns == 2
MaxRepos == 2
MaxCommits == 2
MaxUpdates == 11
MaxSearches == 3

\* ------------------------------------------------------------ option values
None == <<>>
Some(x) == <<x>>
Last(s) == s[Len(s)]

\* ------------------------------------------------------------------- cache
\* const CACHE_TTL = 5 * 60 * 1000
CACHE_TTL_Seconds == 5 * 60
CACHE_TTL == 5 * 60 * 1000

\* The callers whose getCachedOrFetch calls may overlap at an await.
Procs == {"p1", "p2"}

\* The four logical requests of the API client, with the arguments each is
\* called with: fetchGitHubUser(username), fetchUserRepos(username),
\* fetchRepoCommits(owner, repo), fetchCommitDetails(owner, repo, sha).
UserRequest(username) == [op |-> "user", args |-> <<username>>]
ReposRequest(username) == [op |-> "repos", args |-> <<username>>]
CommitsRequest(owner, repo) == [op |-> "commits", args |-> <<owner, repo>>]
CommitRequest(owner, repo, sha) == [op |-> "commit", args |-> <<owner, repo, sha>>]

Requests ==
  { UserRequest("octocat"), ReposRequest("octocat"),
    CommitsRequest("octocat", "hello"), CommitRequest("octocat", "hello", "abc123") }

\* `user:${username}`, `repos:${username}`, `commits:${owner}/${repo}`,
\* `commit:${owner}/${repo}/${sha}`
CacheKey(r) ==
  CASE r.op = "user"    -> <<"user:", r.args[1]>>
    [] r.op = "repos"   -> <<"repos:", r.args[1]>>
    [] r.op = "commits" -> <<"commits:", r.args[1], "/", r.args[2]>>
    [] r.op = "commit"  -> <<"commit:", r.args[1], "/", r.args[2], "/", r.args[3]>>

\* The context string each fetch operation hands to handleApiError.
Context(r) ==
  CASE r.op = "user"    -> <<"fetching GitHub user">>
    [] r.op = "repos"   -> <<"fetching user repositories">>
    [] r.op = "commits" -> <<"fetching commits for ", r.args[1], "/", r.args[2]>>
    [] r.op = "commit"  -> <<"fetching commit details for ", r.args[3]>>

\* apiCache.get(key): undefined when the Map has no such key.
MapGet(m, k) == IF k \in DOMAIN m THEN Some(m[k]) ELSE None

\* apiCache.set(key, value)
MapSetIfAbsent(m, k, v) == IF k \in DOMAIN m THEN m ELSE [x \in DOMAIN m \cup {k} |-> v]
MapSet(m, k, v) == [x \in DOMAIN m \cup {k} |-> IF x = k THEN v ELSE m[x]]

\* cached && now - cached.timestamp < CACHE_TTL
IsLiveNoExpiry(c, n) == c # None
IsLive(c, n) == c # None /\ n - c[1].timestamp < CACHE_TTL

\* ------------------------------------------------------- upstream responses
\* A response of the GitHub API as the client sees it, and equally an error
\* object: the HTTP status (None on a plain Error), the message as a sequence
\* of text fragments, and the headers x-ratelimit-remaining and
\* x-ratelimit-reset (seconds since the epoch, as a number).
OkResponse ==
  [status |-> Some(200), message |-> <<>>, remaining |-> Some("4999"), reset |-> None]

PrimaryRateLimit(reset) ==
  [status |-> Some(403), message |-> <<"API rate limit exceeded for 203.0.113.7.">>,
   remaining |-> Some("0"), reset |-> reset]

SecondaryRateLimit ==
  [status |-> Some(403), message |-> <<"You have exceeded a secondary rate limit.">>,
   remaining |-> Some("4999"), reset |-> None]

BadCredentials ==
  [status |-> Some(401), message |-> <<"Bad credentials">>,
   remaining |-> None, reset |-> None]

NotFound ==
  [status |-> Some(404), message |-> <<"Not Found">>,
   remaining |-> Some("4999"), reset |-> None]

ServerError ==
  [status |-> Some(500), message |-> <<"Server Error">>,
   remaining |-> None, reset |-> None]

Forbidden ==
  [status |-> Some(403), message |-> <<"Repository access blocked">>,
   remaining |-> Some("4999"), reset |-> None]

ResetHeaders == {None, Some(90061)}

PrimaryRateLimits == {PrimaryRateLimit(r) : r \in ResetHeaders}

\* The failures the upstream can answer a request with.
RawErrors ==
  PrimaryRateLimits \cup
  {SecondaryRateLimit, BadCredentials, NotFound, ServerError, Forbidden}

\* String.prototype.includes and RegExp.test on a message: which fragment
\* contains which phrase.
Contains ==
  { <<"API rate limit exceeded for 203.0.113.7.", "API rate limit exceeded">>,
    <<"GitHub API rate limit exceeded.", "API rate limit exceeded">>,
    <<"You have exceeded a secondary rate limit.", "secondary rate">>,
    <<" Rate limit will reset at ", "Rate limit will reset at">>,
    <<"GitHub API authentication failed. Your token may be invalid or expired.",
      "authentication failed">>,
    <<"GitHub resource not found. Please check the provided information and try again.",
      "not found">> }

Includes(message, phrase) ==
  \E i \in DOMAIN message : <<message[i], phrase>> \in Contains

\* new Date(ms).toLocaleTimeString(): the time of day, the date is dropped.
ToLocaleTimeString(ms) == ToString((ms \div 1000) % 86400)

\* new Error(message): no status, no response headers.
NewError(message) ==
  [status |-> None, message |-> message, remaining |-> None, reset |-> None]

\* ----------------------------------------------------------- throttle plugin
\* onRateLimit: options.request.retryCount <= 2
onRateLimit(retryCount) == retryCount <= 2

\* onSecondaryRateLimit: options.request.retryCount <= 1
onSecondaryRateLimit(retryCount) == retryCount <= 1

\* The throttling plugin's handler of a failed request: only a 403 is looked
\* at; a message naming the secondary rate limit asks onSecondaryRateLimit, an
\* exhausted quota (x-ratelimit-remaining "0") asks onRateLimit, anything else
\* is not retried.  request.retryCount starts at 0 and grows by one with each
\* retry the callback grants.
WantRetryAnyError(error, retryCount) == retryCount < 1
WantRetry(error, retryCount) ==
  IF error.status # Some(403) THEN FALSE
  ELSE IF Includes(error.message, "secondary rate")
       THEN onSecondaryRateLimit(retryCount)
  ELSE IF error.remaining = Some("0") THEN onRateLimit(retryCount)
  ELSE FALSE

\* ------------------------------------------------------------ handleApiError
RateLimitMessage(resetMessage) ==
  <<"GitHub API rate limit exceeded.">> \o resetMessage \o
  <<" Please make sure you have added a valid GitHub personal access token in your .env.local file. See the README.md for instructions on how to create and configure your token.">>

AuthenticationFailedError ==
  NewError(<<"GitHub API authentication failed. Your token may be invalid or expired.",
             " Please make sure you have added a valid GitHub personal access token in your .env.local file.">>)

ResourceNotFoundError ==
  NewError(<<"GitHub resource not found. Please check the provided information and try again.">>)

\* The error handleApiError throws (it never returns): a new Error for a rate
\* limit, a 401 and a 404, the error itself otherwise.  The context is only
\* written to the console.
handleApiErrorNo404(error, context) ==
  IF error.status = Some(401) THEN AuthenticationFailedError ELSE error
handleApiErrorNoStatusTest(error, context) ==
  IF Includes(error.message, "API rate limit exceeded")
  THEN NewError(RateLimitMessage(
         IF error.reset # None
         THEN <<" Rate limit will reset at ",
                ToLocaleTimeString(error.reset[1] * 1000), ".">>
         ELSE <<>>))
  ELSE IF error.status = Some(401) THEN AuthenticationFailedError
  ELSE IF error.status = Some(404) THEN ResourceNotFoundError
  ELSE error
handleApiError(error, context) ==
  IF error.status = Some(403) /\ Includes(error.message, "API rate limit exceeded")
  THEN LET resetTime == error.reset
           resetMessage ==
             IF resetTime # None
             THEN <<" Rate limit will reset at ",
                    ToLocaleTimeString(resetTime[1] * 1000), ".">>
             ELSE <<>>
       IN  NewError(RateLimitMessage(resetMessage))
  ELSE IF error.status = Some(401) THEN AuthenticationFailedError
  ELSE IF error.status = Some(404) THEN ResourceNotFoundError
  ELSE error

\* -------------------------------------------------------------------- state
VARIABLES
  apiCache,   \* the Map apiCache: cache key -> [data, timestamp]
  clock,      \* Date.now()
  nticks,     \* how often the clock has advanced
  ncalls,     \* how many fetch operations have been called
  serial,     \* how many payloads the upstream has served
  frame,      \* per caller: its getCachedOrFetch call
  upstream,   \* what the GitHub API holds: repositories, commits, stats
  analysis,   \* the analyzeCommitFarming call: its position and locals
  nruns,      \* how many analyses have been started
  card,       \* the ScoreCard component: its score prop and what it shows
  users,      \* the Firestore collection 'users': uid -> document
  update,     \* the updateUserAnalysis call: its position and locals
  written,    \* per uid, the analyses handed to the calls that wrote, in order
  page,       \* the search page's state: username, user, analysis, loading, error
  searches    \* the handleSearch calls made so far: position and captured username

\* The presentation and persistence state, which the engine leaves alone.
pvars == <<card, users, update, written, page, searches>>

vars ==
  <<apiCache, clock, nticks, ncalls, serial, frame, upstream, analysis, nruns, pvars>>

\* The state of the analysis, which the fetch operations called on their own
\* leave alone.
avars == <<upstream, analysis, nruns>>

\* The steps by which time passes between two events.
TickSteps == {1, 5 * 60 * 1000 - 1}

IdleFrame ==
  [pc |-> "idle", req |-> None, now |-> 0, cached |-> None, retryCount |-> 0,
   hist |-> <<>>, result |-> None, err |-> None]

\* apiCache.set(cacheKey, { data, timestamp: now })
StoredEntryAtStoreTime(f, data) == [data |-> data, timestamp |-> clock]
StoredEntry(f, data) == [data |-> data, timestamp |-> f.now]

\* A fetch operation (fetchGitHubUser, fetchUserRepos, fetchRepoCommits,
\* fetchCommitDetails) is called: getCachedOrFetch reads the cache and the
\* clock, returns the cached data when the entry is live, and otherwise calls
\* fetchFn, which sends the request and suspends.
CallFetch(p, r) ==
  /\ frame[p].pc \in {"idle", "returned", "thrown"}
  /\ ncalls < MaxCalls
  /\ ncalls' = ncalls + 1
  /\ LET cached == MapGet(apiCache, CacheKey(r))
         now == clock
         f == [IdleFrame EXCEPT !.req = Some(r), !.now = now, !.cached = cached]
     IN  frame' = [frame EXCEPT ![p] =
           IF IsLive(cached, now)
           THEN [f EXCEPT !.pc = "returned", !.result = Some(cached[1].data)]
           ELSE [f EXCEPT !.pc = "fetching"]]
  /\ UNCHANGED <<apiCache, clock, nticks, serial, avars, pvars>>

\* The request succeeds: fetchFn resolves, the data is stored and returned.
UpstreamSuccess(p) ==
  /\ frame[p].pc = "fetching"
  /\ LET f == frame[p]
         data == serial + 1
     IN  /\ serial' = data
         /\ apiCache' = MapSet(apiCache, CacheKey(f.req[1]), StoredEntry(f, data))
         /\ frame' = [frame EXCEPT ![p] =
              [f EXCEPT !.pc = "returned", !.result = Some(data),
                        !.hist = Append(f.hist, OkResponse)]]
  /\ UNCHANGED <<clock, nticks, ncalls, avars, pvars>>

\* The request fails and the throttling plugin sends it again.
RetryRequest(p, e) ==
  /\ frame[p].pc = "fetching"
  /\ WantRetry(e, frame[p].retryCount)
  /\ frame' = [frame EXCEPT ![p] =
       [@ EXCEPT !.retryCount = @ + 1, !.hist = Append(@, e)]]
  /\ UNCHANGED <<apiCache, clock, nticks, ncalls, serial, avars, pvars>>

\* The request fails for good: fetchFn rejects, getCachedOrFetch stores nothing,
\* and the fetch operation's catch hands the error to handleApiError.
FetchThrowsEvicts(p, e) ==
  /\ frame[p].pc = "fetching"
  /\ ~WantRetry(e, frame[p].retryCount)
  /\ frame' = [frame EXCEPT ![p] =
       [@ EXCEPT !.pc = "thrown", !.hist = Append(@, e),
                 !.err = Some(handleApiError(e, Context(frame[p].req[1])))]]
  /\ apiCache' = [k \in DOMAIN apiCache \ {CacheKey(frame[p].req[1])} |-> apiCache[k]]
  /\ UNCHANGED <<clock, nticks, ncalls, serial, avars, pvars>>
FetchThrows(p, e) ==
  /\ frame[p].pc = "fetching"
  /\ ~WantRetry(e, frame[p].retryCount)
  /\ frame' = [frame EXCEPT ![p] =
       [@ EXCEPT !.pc = "thrown", !.hist = Append(@, e),
                 !.err = Some(handleApiError(e, Context(frame[p].req[1])))]]
  /\ UNCHANGED <<apiCache, clock, nticks, ncalls, serial, avars, pvars>>

\* Time passes.
Tick(d) ==
  /\ nticks < MaxTicks
  /\ nticks' = nticks + 1
  /\ clock' = clock + d
  /\ UNCHANGED <<apiCache, ncalls, serial, frame, avars, pvars>>

\* ------------------------------------------------------------ upstream data
\* A repository of the listing: full_name is `${owner}/${name}`.
Repo(owner, name, fork, stars, forks) ==
  [full_name |-> <<owner, "/", name>>, fork |-> fork,
   stargazers_count |-> stars, forks_count |-> forks]

RepoNames == <<"r1", "r2", "r3", "r4", "r5", "r6", "r7", "r8", "r9", "r10", "r11", "r12">>
CommitShas == <<"c1", "c2", "c3", "c4", "c5", "c6", "c7", "c8">>

\* The listings of user octocat: up to MaxRepos repositories, each a fork or
\* not, with 60 stars and 3 forks each.
Listings ==
  UNION { { [i \in 1..n |-> Repo("octocat", RepoNames[i], forkAt[i], 60, 3)] :
              forkAt \in [1..n -> BOOLEAN] } : n \in 0..MaxRepos }

\* The commit lists: up to MaxCommits commits, the first two 3 minutes apart,
\* the next 5 minutes later, then 7, ... (dates in milliseconds).
CommitLists ==
  { [i \in 1..n |-> [sha |-> CommitShas[i], date |-> i * i * 60 * 1000]] :
      n \in 0..MaxCommits }

\* The stats of a commit detail, by the commit: c1 adds 10 lines, c2 has no
\* stats, a1 adds 1000 lines, a2 adds 90 and deletes 10, m1 adds 50 and
\* deletes 30, z1 changes nothing, b1..b5 add 50 and delete 50, the others add
\* 10 lines and delete 90.
StatsOf(sha) ==
  IF sha = "c1" THEN Some([additions |-> 10, deletions |-> 0])
  ELSE IF sha = "c2" THEN None
  ELSE IF sha = "a1" THEN Some([additions |-> 1000, deletions |-> 0])
  ELSE IF sha = "a2" THEN Some([additions |-> 90, deletions |-> 10])
  ELSE IF sha = "m1" THEN Some([additions |-> 50, deletions |-> 30])
  ELSE IF sha = "z1" THEN Some([additions |-> 0, deletions |-> 0])
  ELSE IF sha \in {"b1", "b2", "b3", "b4", "b5"}
       THEN Some([additions |-> 50, deletions |-> 50])
  ELSE Some([additions |-> 10, deletions |-> 90])

\* What the upstream holds; every repository has the same commits.
Worlds == [repos : Listings, commits : CommitLists]

EmptyWorld == [repos |-> <<>>, commits |-> <<>>]

\* The upstreams the sampling and the metrics are exercised with.  A listing
\* is given by its length, the positions of its forks, and the stars and forks
\* every repository has; a commit list by its commits, newest first.
Minute == 60 * 1000

Commit(sha, date) == [sha |-> sha, date |-> date]

SampleShapes ==
  { <<1, {}>>, <<2, {1, 2}>>, <<3, {}>>, <<6, {2}>>, <<6, {}>>, <<7, {2}>>,
    <<11, {3}>>, <<11, {}>> }

SampleWeights == { <<20, 0>>, <<0, 4>>, <<2, 1>>, <<50, 0>>, <<5, 0>>, <<5, 2>> }

SampleListings ==
  { [i \in 1..sh[1] |-> Repo("octocat", RepoNames[i], i \in sh[2], w[1], w[2])] :
      sh \in SampleShapes, w \in SampleWeights }

SampleCommitLists ==
  { <<>>,
    <<Commit("c2", 0)>>,
    <<Commit("m1", 0)>>,
    <<Commit("a1", 10 * Minute), Commit("c2", Minute), Commit("z1", 0)>>,
    <<Commit("a2", 5 * Minute), Commit("c2", 0)>>,
    <<Commit("c3", 5 * Minute - 1), Commit("c2", 0)>>,
    <<Commit("b1", 70 * Minute), Commit("b2", 60 * Minute), Commit("b3", 50 * Minute),
      Commit("b4", 40 * Minute), Commit("b5", 30 * Minute), Commit("c3", 20 * Minute),
      Commit("c4", 10 * Minute)>> }

SampleWorlds == [repos : SampleListings, commits : SampleCommitLists]

\* The data the upstream answers request r with.
UpstreamData(r) ==
  CASE r.op = "repos"   -> upstream.repos
    [] r.op = "commits" -> upstream.commits
    [] r.op = "commit"  -> [sha |-> r.args[3], stats |-> StatsOf(r.args[3])]
    [] r.op = "user"    -> [login |-> r.args[1]]

\* ------------------------------------------------------------------ numbers
\* The scores are fractions, kept in lowest terms.
RECURSIVE Gcd(_, _)
Gcd(a, b) == IF b = 0 THEN a ELSE Gcd(b, a % b)
Frac(n, d) == [num |-> n \div Gcd(n, d), den |-> d \div Gcd(n, d)]
FracAdd(x, y) == Frac(x.num * y.den + y.num * x.den, x.den * y.den)
FracMul(x, y) == Frac(x.num * y.num, x.den * y.den)
FracLeq(x, y) == x.num * y.den <= y.num * x.den
Zero == Frac(0, 1)
One == Frac(1, 1)

Min(a, b) == IF a < b THEN a ELSE b

\* array.slice(0, n)
SliceAll(s, n) == s
Slice(s, n) == SubSeq(s, 1, Min(n, Len(s)))

\* repos.filter(repo => !repo.fork)
RECURSIVE OwnRepos(_)
OwnRepos(repos) ==
  IF repos = <<>> THEN <<>>
  ELSE IF ~repos[1].fork THEN <<repos[1]>> \o OwnRepos(Tail(repos))
  ELSE OwnRepos(Tail(repos))

\* ownRepos.reduce((sum, repo) => sum + repo.stargazers_count, 0)
RECURSIVE TotalStars(_)
TotalStars(repos) ==
  IF repos = <<>> THEN 0 ELSE repos[1].stargazers_count + TotalStars(Tail(repos))

\* ownRepos.reduce((sum, repo) => sum + repo.forks_count, 0)
RECURSIVE TotalForks(_)
TotalForks(repos) ==
  IF repos = <<>> THEN 0 ELSE repos[1].forks_count + TotalForks(Tail(repos))

\* array.sort((a, b) => a - b)
RECURSIVE Insert(_, _)
Insert(x, s) ==
  IF s = <<>> THEN <<x>>
  ELSE IF x < s[1] THEN <<x>> \o s
  ELSE <<s[1]>> \o Insert(x, Tail(s))
RECURSIVE SortAscending(_)
SortAscending(s) == IF s = <<>> THEN <<>> ELSE Insert(s[1], SortAscending(Tail(s)))

\* ------------------------------------------------------------------ metrics
\* 1. Commit Frequency
CommitFrequencyByPairs(commitDates) ==
  IF Len(commitDates) > 1
  THEN LET sorted == SortAscending(commitDates)
           suspiciousPatterns ==
             Cardinality({i \in 2..Len(sorted) :
                            sorted[i] - sorted[i - 1] < 5 * (1000 * 60)})
       IN  Frac(Len(sorted) - 1 - suspiciousPatterns, Len(sorted) - 1)
  ELSE Frac(1, 2)
CommitFrequency(commitDates) ==
  IF Len(commitDates) > 1
  THEN LET sorted == SortAscending(commitDates)
           suspiciousPatterns ==
             Cardinality({i \in 2..Len(sorted) :
                            sorted[i] - sorted[i - 1] < 5 * (1000 * 60)})
       IN  IF suspiciousPatterns >= Len(sorted) THEN Zero
           ELSE Frac(Len(sorted) - suspiciousPatterns, Len(sorted))
  ELSE Frac(1, 2)

\* 2. Code Quality: ratio = totalDeletions / (totalAdditions + totalDeletions);
\* ratio < 0.1 ? 0.3 : ratio > 0.5 ? 0.9 : 0.6
CodeQualityInclusive(totalAdditions, totalDeletions) ==
  IF totalAdditions + totalDeletions > 0
  THEN IF 10 * totalDeletions <= totalAdditions + totalDeletions THEN Frac(3, 10)
       ELSE IF 2 * totalDeletions >= totalAdditions + totalDeletions THEN Frac(9, 10)
       ELSE Frac(6, 10)
  ELSE Frac(1, 2)
CodeQuality(totalAdditions, totalDeletions) ==
  IF totalAdditions + totalDeletions > 0
  THEN IF 10 * totalDeletions < totalAdditions + totalDeletions THEN Frac(3, 10)
       ELSE IF 2 * totalDeletions > totalAdditions + totalDeletions THEN Frac(9, 10)
       ELSE Frac(6, 10)
  ELSE Frac(1, 2)

\* 3. Project Diversity: Math.min(1, ownRepos.length / 10)
ProjectDiversityUncapped(ownRepos) == Frac(Len(ownRepos), 10)
ProjectDiversity(ownRepos) ==
  IF Len(ownRepos) >= 10 THEN One ELSE Frac(Len(ownRepos), 10)

\* 4. Contribution Impact
ContributionImpactInclusive(ownRepos) ==
  LET totalStars == TotalStars(ownRepos)
      totalForks == TotalForks(ownRepos)
  IN  IF totalStars >= 100 \/ totalForks >= 20 THEN One
      ELSE IF totalStars >= 10 \/ totalForks >= 5 THEN Frac(7, 10)
      ELSE Frac(3, 10)
ContributionImpact(ownRepos) ==
  LET totalStars == TotalStars(ownRepos)
      totalForks == TotalForks(ownRepos)
  IN  IF totalStars > 100 \/ totalForks > 20 THEN One
      ELSE IF totalStars > 10 \/ totalForks > 5 THEN Frac(7, 10)
      ELSE Frac(3, 10)

\* The overall score and the metrics bundle analyze returns.
ScoreSwappedWeights(m) ==
  FracAdd(FracAdd(FracAdd(FracMul(m.commitFrequency, Frac(3, 10)),
                          FracMul(m.codeQuality, Frac(4, 10))),
                  FracMul(m.projectDiversity, Frac(1, 10))),
          FracMul(m.contributionImpact, Frac(2, 10)))
Score(m) ==
  FracAdd(FracAdd(FracAdd(FracMul(m.commitFrequency, Frac(4, 10)),
                          FracMul(m.codeQuality, Frac(3, 10))),
                  FracMul(m.projectDiversity, Frac(1, 10))),
          FracMul(m.contributionImpact, Frac(2, 10)))

Metrics(a) ==
  [commitFrequency |-> CommitFrequency(a.commitDates),
   codeQuality |-> CodeQuality(a.totalAdditions, a.totalDeletions),
   projectDiversity |-> ProjectDiversity(a.ownRepos),
   contributionImpact |-> ContributionImpact(a.ownRepos)]

AnalysisResult(a) == [score |-> Score(Metrics(a)), metrics |-> Metrics(a)]

\* The result for a user without a repository of their own.
ZeroResult ==
  [score |-> Zero,
   metrics |-> [commitFrequency |-> Zero, codeQuality |-> Zero,
                projectDiversity |-> Zero, contributionImpact |-> Zero]]

\* ------------------------------------------------------ analyzeCommitFarming
\* The context of analyzeCommitFarming's own catch.
AnalyzeContext == <<"analyzing commit farming">>

IdleAnalysis ==
  [pc |-> "idle", username |-> "", ownRepos |-> <<>>, reposToAnalyze |-> <<>>,
   i |-> 0, commitsToAnalyze |-> <<>>, j |-> 0,
   totalCommits |-> 0, totalAdditions |-> 0, totalDeletions |-> 0,
   commitDates |-> <<>>, fetches |-> <<>>, thrown |-> None,
   result |-> None, error |-> None, previous |-> None]

\* repo.full_name.split('/')
SplitFullName(full_name) == <<full_name[1], full_name[3]>>

\* The fetch operation the analysis is waiting for.
PendingRequest(a) ==
  CASE a.pc = "repos"   -> ReposRequest(a.username)
    [] a.pc = "commits" ->
         LET on == SplitFullName(a.reposToAnalyze[a.i].full_name)
         IN  CommitsRequest(on[1], on[2])
    [] a.pc = "details" ->
         LET on == SplitFullName(a.reposToAnalyze[a.i].full_name)
         IN  CommitRequest(on[1], on[2], a.commitsToAnalyze[a.j].sha)

\* What a fetch operation called now with request r can come to, retries
\* included: the cached data when the entry is live; otherwise the upstream's
\* data, which is stored, or the error handleApiError makes of a failure,
\* with nothing stored.
FetchOutcomesLosesCachedCommits(r) ==
  LET key == CacheKey(r)
      cached == MapGet(apiCache, key)
      now == clock
  IN  IF IsLive(cached, now)
      THEN {[threw |-> FALSE,
             data |-> IF r.op = "commits" THEN <<>> ELSE cached[1].data,
             error |-> None, cache |-> apiCache]}
      ELSE {[threw |-> FALSE, data |-> UpstreamData(r), error |-> None,
             cache |-> MapSet(apiCache, key,
                              StoredEntry([now |-> now], UpstreamData(r)))]}
FetchOutcomes(r) ==
  LET key == CacheKey(r)
      cached == MapGet(apiCache, key)
      now == clock
  IN  IF IsLive(cached, now)
      THEN {[threw |-> FALSE, data |-> cached[1].data, error |-> None,
             cache |-> apiCache]}
      ELSE {[threw |-> FALSE, data |-> UpstreamData(r), error |-> None,
             cache |-> MapSet(apiCache, key,
                              StoredEntry([now |-> now], UpstreamData(r)))]}
           \cup
           {[threw |-> TRUE, data |-> <<>>,
             error |-> Some(handleApiError(e, Context(r))), cache |-> apiCache] :
              e \in RawErrors}

\* analyze's catch: handleApiError(error, 'analyzing commit farming')
AnalyzeCatchSkips(a, error) ==
  IF a.i < Len(a.reposToAnalyze) THEN [a EXCEPT !.i = @ + 1, !.pc = "commits"]
  ELSE [a EXCEPT !.pc = "done", !.result = Some(AnalysisResult(a))]
AnalyzeCatchSwallows(a, error) ==
  [a EXCEPT !.pc = "done", !.result = Some(AnalysisResult(a))]
AnalyzeCatch(a, error) ==
  [a EXCEPT !.pc = "failed", !.error = Some(handleApiError(error, AnalyzeContext))]

\* if (ownRepos.length === 0) return { score: 0, metrics: { ... 0 } }
NoOwnRepoNeverShortCircuits(ownRepos) == FALSE
NoOwnRepo(ownRepos) == Len(ownRepos) = 0

\* The head of the loop over reposToAnalyze, reached at its start and after
\* the body for repository i: on to the next repository, or past the loop to
\* the metrics and the result.
NextRepo(a) ==
  IF a.i < Len(a.reposToAnalyze)
  THEN [a EXCEPT !.i = @ + 1, !.pc = "commits"]
  ELSE [a EXCEPT !.pc = "done", !.result = Some(AnalysisResult(a))]

\* analyzeCommitFarming(username) is called and calls fetchUserRepos.  The
\* caller still holds the result the last analysis that returned gave it.
AnalyzeCall(username) ==
  /\ analysis.pc \in {"idle", "done", "failed"}
  /\ nruns < MaxRuns
  /\ nruns' = nruns + 1
  /\ analysis' = [IdleAnalysis EXCEPT
                    !.pc = "repos", !.username = username,
                    !.previous = IF analysis.result # None THEN analysis.result
                                 ELSE analysis.previous]
  /\ UNCHANGED <<apiCache, clock, nticks, ncalls, serial, frame, upstream, pvars>>

\* fetchUserRepos returns: forks are dropped; without a repository left the
\* zero result is returned, otherwise the loop over at most 5 repositories
\* starts.
ReposFetched ==
  /\ analysis.pc = "repos"
  /\ \E o \in FetchOutcomes(PendingRequest(analysis)) :
       /\ ~o.threw
       /\ apiCache' = o.cache
       /\ LET a == [analysis EXCEPT !.fetches = Append(@, PendingRequest(analysis)),
                                    !.ownRepos = OwnRepos(o.data)]
          IN  analysis' =
                IF NoOwnRepo(a.ownRepos)
                THEN [a EXCEPT !.pc = "done", !.result = Some(ZeroResult)]
                ELSE NextRepo([a EXCEPT !.reposToAnalyze = Slice(a.ownRepos, 5)])
  /\ UNCHANGED <<clock, nticks, ncalls, serial, frame, upstream, nruns, pvars>>

CommitDate(commit) == commit.date

\* fetchRepoCommits returns: the commits are counted, their dates collected,
\* and the details of at most the first 5 are fetched.
CommitsFetched ==
  /\ analysis.pc = "commits"
  /\ \E o \in FetchOutcomes(PendingRequest(analysis)) :
       /\ ~o.threw
       /\ apiCache' = o.cache
       /\ LET commits == o.data
              a == [analysis EXCEPT
                      !.fetches = Append(@, PendingRequest(analysis)),
                      !.totalCommits = @ + Len(commits),
                      !.commitDates = @ \o [k \in 1..Len(commits) |-> CommitDate(commits[k])],
                      !.commitsToAnalyze = Slice(commits, 5),
                      !.j = 1]
          IN  analysis' =
                IF a.commitsToAnalyze = <<>> THEN NextRepo(a)
                ELSE [a EXCEPT !.pc = "details"]
  /\ UNCHANGED <<clock, nticks, ncalls, serial, frame, upstream, nruns, pvars>>

\* fetchCommitDetails returns: the stats, when there are any, are added up.
DetailsFetched ==
  /\ analysis.pc = "details"
  /\ \E o \in FetchOutcomes(PendingRequest(analysis)) :
       /\ ~o.threw
       /\ apiCache' = o.cache
       /\ LET details == o.data
              a == [analysis EXCEPT
                      !.fetches = Append(@, PendingRequest(analysis)),
                      !.totalAdditions =
                         IF details.stats # None THEN @ + details.stats[1].additions ELSE @,
                      !.totalDeletions =
                         IF details.stats # None THEN @ + details.stats[1].deletions ELSE @]
          IN  analysis' =
                IF a.j < Len(a.commitsToAnalyze) THEN [a EXCEPT !.j = @ + 1]
                ELSE NextRepo(a)
  /\ UNCHANGED <<clock, nticks, ncalls, serial, frame, upstream, nruns, pvars>>

\* The fetch operation the analysis waits for throws: analyze's catch takes
\* the error.
AnalyzeFetchThrows ==
  /\ analysis.pc \in {"repos", "commits", "details"}
  /\ \E o \in FetchOutcomes(PendingRequest(analysis)) :
       /\ o.threw
       /\ apiCache' = o.cache
       /\ analysis' =
            AnalyzeCatch([analysis EXCEPT !.fetches = Append(@, PendingRequest(analysis)),
                                          !.thrown = o.error],
                         o.error[1])
  /\ UNCHANGED <<clock, nticks, ncalls, serial, frame, upstream, nruns, pvars>>

\* ---------------------------------------------------------------- ScoreCard
\* The component before it is rendered.
IdleCard == [score |-> None, scoreValue |-> None, rating |-> None]

\* Math.round(x) for x >= 0: the integer nearest to x, a half rounds up.
MathRound(x) == (2 * x.num + x.den) \div (2 * x.den)

\* getRatingText(score), in ScoreCard and in the search page alike.
getRatingText(score) ==
  IF FracLeq(Frac(8, 10), score) THEN "Real Developer"
  ELSE IF FracLeq(Frac(6, 10), score) THEN "Solid Contributor"
  ELSE IF FracLeq(Frac(4, 10), score) THEN "Average Coder"
  ELSE IF FracLeq(Frac(2, 10), score) THEN "Potential Farmer"
  ELSE "Commit Farmer"

\* The scores the component is rendered with: analysis.score, between 0 and 1,
\* in steps of 1/500.  score * 100 is then never halfway between two integers,
\* where the rounding of the double product could fall either way.
ScoreProps == {Frac(k, 500) : k \in 0..500}

\* ScoreCard({ score }) renders: the number in the ring is
\* Math.round(score * 100), the label under it getRatingText(score).
ScoreCard(score) ==
  /\ card' = [score |-> Some(score),
              scoreValue |-> Some(MathRound(FracMul(score, Frac(100, 1)))),
              rating |-> Some(getRatingText(score))]
  /\ UNCHANGED <<apiCache, clock, nticks, ncalls, serial, frame, avars,
                 users, update, written, page, searches>>

\* ------------------------------------------------------- updateUserAnalysis
\* The uids the calls are made with: u1 has signed in, u2 has no document.
Uids == {"u1", "u2"}

\* The document signInWithGithub creates: no lastAnalysis, no analysisHistory.
UserDoc(uid) ==
  [uid |-> uid, githubUsername |-> "octocat",
   lastAnalysis |-> None, analysisHistory |-> None]

InitialUsers == [uid \in {"u1"} |-> UserDoc(uid)]

IdleUpdate ==
  [pc |-> "idle", n |-> 0, uid |-> "", analysisData |-> None,
   userData |-> None, error |-> None]

\* The analysis the n-th call is made with: UserData['lastAnalysis'].
AnalysisData(n) ==
  [timestamp |-> n, score |-> ZeroResult.score, metrics |-> ZeroResult.metrics]

\* array.slice(-n): the last n elements.
SliceFirst(s, n) == SubSeq(s, 1, Min(n, Len(s)))
SliceLast(s, n) == SubSeq(s, Len(s) - Min(n, Len(s)) + 1, Len(s))

\* userData.analysisHistory?.filter(entry => entry !== undefined) ?? []
FilteredHistory(userData) ==
  IF userData.analysisHistory = None THEN <<>>
  ELSE SelectSeq(userData.analysisHistory[1], LAMBDA entry : entry # None)

\* const updatedData: Partial<UserData> = { lastAnalysis, analysisHistory }
UpdatedData(userData, analysisData) ==
  [lastAnalysis |-> Some(analysisData),
   analysisHistory |->
     Some(SliceLast(FilteredHistory(userData) \o <<analysisData>>, 10))]

\* setDoc(ref, data, { merge: true }): the fields of data replace those of the
\* document, the other fields stay.
MergeDoc(document, data) ==
  [f \in DOMAIN document \cup DOMAIN data |->
     IF f \in DOMAIN data THEN data[f] ELSE document[f]]

\* updateUserAnalysis(uid, analysisData) is called and awaits getUserData.
UpdateUserAnalysisCall(uid) ==
  /\ update.pc \in {"idle", "done", "thrown"}
  /\ update.n < MaxUpdates
  /\ update' = [IdleUpdate EXCEPT !.pc = "reading", !.n = update.n + 1, !.uid = uid,
                                  !.analysisData = Some(AnalysisData(update.n + 1))]
  /\ UNCHANGED <<apiCache, clock, nticks, ncalls, serial, frame, avars,
                 card, users, written, page, searches>>

\* getUserData returns the document's data, or null when there is none: then
\* 'User not found' is thrown and nothing is written.
GetUserDataReturns ==
  /\ update.pc = "reading"
  /\ LET userData == MapGet(users, update.uid)
     IN  update' =
           IF userData = None
           THEN [update EXCEPT !.pc = "thrown", !.error = Some("User not found")]
           ELSE [update EXCEPT !.pc = "writing", !.userData = userData]
  /\ UNCHANGED <<apiCache, clock, nticks, ncalls, serial, frame, avars,
                 card, users, written, page, searches>>

\* setDoc resolves: the document now holds the updated fields.
SetDocReturns ==
  /\ update.pc = "writing"
  /\ users' = [users EXCEPT ![update.uid] =
                 MergeDoc(@, UpdatedData(update.userData[1], update.analysisData[1]))]
  /\ written' = [written EXCEPT ![update.uid] = Append(@, update.analysisData[1])]
  /\ update' = [update EXCEPT !.pc = "done"]
  /\ UNCHANGED <<apiCache, clock, nticks, ncalls, serial, frame, avars, card,
                 page, searches>>

\* -------------------------------------------------------------- search page
\* What is typed into the input: nothing, a blank, or a login.
Inputs == {"", " ", "octocat", "torvalds"}

\* username.trim()
Trim(username) == IF username = " " THEN "" ELSE username

\* useState(''), useState(null), useState(null), useState(false), useState('')
InitialPage ==
  [username |-> "", user |-> None, analysis |-> None, loading |-> FALSE,
   error |-> <<>>]

\* The errors fetchGitHubUser and analyzeCommitFarming throw.
SearchErrors ==
  {handleApiError(handleApiError(e, Context(UserRequest("octocat"))), AnalyzeContext) :
     e \in RawErrors}

\* The profile fetchGitHubUser(username) resolves with, and the result
\* analyzeCommitFarming(username) resolves with: the analysis of that user.
GitHubUser(username) == [login |-> username]
AnalysisOf(username) == [username |-> username]

\* The message the catch of handleSearch sets for err; username is the one
\* the call captured.
SearchErrorMessage(err, username) ==
  IF err.message # <<>> /\ Includes(err.message, "API rate limit exceeded")
  THEN <<"GitHub API rate limit exceeded. ">> \o
       (IF Includes(err.message, "Rate limit will reset at") THEN err.message
        ELSE <<"Please try again later or add your GitHub token in .env.local file.">>)
  ELSE IF err.message # <<>> /\ Includes(err.message, "authentication failed")
  THEN <<"GitHub API authentication failed. Please check your token in .env.local file.">>
  ELSE IF err.message # <<>> /\ Includes(err.message, "not found")
  THEN <<"GitHub user \"", username, "\" not found. Please check the username and try again.">>
  ELSE <<"Error fetching GitHub profile. Please check the username and try again.">>

\* onChange: setUsername(e.target.value)
SetUsername(value) ==
  /\ page.username # value
  /\ page' = [page EXCEPT !.username = value]
  /\ UNCHANGED <<apiCache, clock, nticks, ncalls, serial, frame, avars,
                 card, users, update, written, searches>>

\* handleSearch() up to its first await: a blank username sets the error and
\* returns; otherwise loading is set, error, user and analysis are cleared,
\* and fetchGitHubUser(username) is awaited.
HandleSearch ==
  /\ Len(searches) < MaxSearches
  /\ IF Trim(page.username) = ""
     THEN /\ page' = [page EXCEPT !.error = <<"Please enter a GitHub username">>]
          /\ searches' = Append(searches, [pc |-> "ended", username |-> page.username])
     ELSE /\ page' = [page EXCEPT !.loading = TRUE, !.error = <<>>,
                                  !.user = None, !.analysis = None]
          /\ searches' = Append(searches, [pc |-> "user", username |-> page.username])
  /\ UNCHANGED <<apiCache, clock, nticks, ncalls, serial, frame, avars,
                 card, users, update, written>>

\* onKeyDown: e.key === 'Enter' && handleSearch()
PressEnter == HandleSearch

\* onClick={handleSearch} of the button, which is disabled while loading.
ClickSearch == ~page.loading /\ HandleSearch

\* fetchGitHubUser resolves in search s: setUser(userData), then
\* analyzeCommitFarming(username) is awaited.
UserFetched(s) ==
  /\ searches[s].pc = "user"
  /\ page' = [page EXCEPT !.user = Some(GitHubUser(searches[s].username))]
  /\ searches' = [searches EXCEPT ![s].pc = "analysis"]
  /\ UNCHANGED <<apiCache, clock, nticks, ncalls, serial, frame, avars,
                 card, users, update, written>>

\* analyzeCommitFarming resolves in search s: setAnalysis(analysisData), and
\* the finally block sets loading to false.
AnalysisReturned(s) ==
  /\ searches[s].pc = "analysis"
  /\ page' = [page EXCEPT !.analysis = Some(AnalysisOf(searches[s].username)),
                          !.loading = FALSE]
  /\ searches' = [searches EXCEPT ![s].pc = "ended"]
  /\ UNCHANGED <<apiCache, clock, nticks, ncalls, serial, frame, avars,
                 card, users, update, written>>

\* Either await of search s rejects: the catch sets the error message, and the
\* finally block sets loading to false.
SearchThrows(s, err) ==
  /\ searches[s].pc \in {"user", "analysis"}
  /\ page' = [page EXCEPT !.error = SearchErrorMessage(err, searches[s].username),
                          !.loading = FALSE]
  /\ searches' = [searches EXCEPT ![s].pc = "ended"]
  /\ UNCHANGED <<apiCache, clock, nticks, ncalls, serial, frame, avars,
                 card, users, update, written>>

\* -------------------------------------------------------------------- specs
\* The presentation and persistence state at the start.
PInit ==
  /\ card = IdleCard
  /\ users = InitialUsers
  /\ update = IdleUpdate
  /\ written = [uid \in Uids |-> <<>>]
  /\ page = InitialPage
  /\ searches = <<>>

Init ==
  /\ apiCache = <<>>
  /\ clock = 0
  /\ nticks = 0
  /\ ncalls = 0
  /\ serial = 0
  /\ frame = [p \in Procs |-> IdleFrame]
  /\ upstream = EmptyWorld
  /\ analysis = IdleAnalysis
  /\ nruns = 0
  /\ PInit

\* The requests the cache is exercised with: `user:octocat`, `repos:octocat`.
CachedRequests == {UserRequest("octocat"), ReposRequest("octocat")}

\* The cache is exercised with a fetch that succeeds or fails for good; however
\* long it takes is the Ticks between its call and its end.
TransientErrors == {ServerError}

\* The response cache under two overlapping callers.
Next ==
  \/ \E p \in Procs, r \in CachedRequests : CallFetch(p, r)
  \/ \E p \in Procs : UpstreamSuccess(p)
  \/ \E p \in Procs, e \in TransientErrors : FetchThrows(p, e)
  \/ \E d \in TickSteps : Tick(d)

Spec == Init /\ [][Next]_vars

\* The API client's retry and error classification: one caller, every failure
\* the upstream can answer with.
NextClient ==
  \/ \E r \in Requests : CallFetch("p1", r)
  \/ UpstreamSuccess("p1")
  \/ \E e \in RawErrors : RetryRequest("p1", e)
  \/ \E e \in RawErrors : FetchThrows("p1", e)

SpecClient == Init /\ [][NextClient]_vars

\* The analysis of user octocat, run up to MaxRuns times against one upstream.
InitAnalyze ==
  /\ apiCache = <<>>
  /\ clock = 0
  /\ nticks = 0
  /\ ncalls = 0
  /\ serial = 0
  /\ frame = [p \in Procs |-> IdleFrame]
  /\ upstream \in Worlds
  /\ analysis = IdleAnalysis
  /\ nruns = 0
  /\ PInit

\* Time passes between two runs; the fetches of one run are taken to follow
\* one another at once.
BetweenRuns == analysis.pc \in {"done", "failed"}

NextAnalyze ==
  \/ AnalyzeCall("octocat")
  \/ ReposFetched
  \/ CommitsFetched
  \/ DetailsFetched
  \/ AnalyzeFetchThrows
  \/ \E d \in TickSteps : BetweenRuns /\ Tick(d)

SpecAnalyze == InitAnalyze /\ [][NextAnalyze]_vars

\* The sampling and the metrics: the analysis of user octocat against the
\* sample upstreams, every request answered.
InitSample ==
  /\ apiCache = <<>>
  /\ clock = 0
  /\ nticks = 0
  /\ ncalls = 0
  /\ serial = 0
  /\ frame = [p \in Procs |-> IdleFrame]
  /\ upstream \in SampleWorlds
  /\ analysis = IdleAnalysis
  /\ nruns = 0
  /\ PInit

NextSample ==
  \/ AnalyzeCall("octocat")
  \/ ReposFetched
  \/ CommitsFetched
  \/ DetailsFetched

SpecSample == InitSample /\ [][NextSample]_vars

\* The ScoreCard component, rendered with any score.
NextCard == \E score \in ScoreProps : ScoreCard(score)

SpecCard == Init /\ [][NextCard]_vars

\* updateUserAnalysis, one call after the other.
NextStore ==
  \/ \E uid \in Uids : UpdateUserAnalysisCall(uid)
  \/ GetUserDataReturns
  \/ SetDocReturns

SpecStore == Init /\ [][NextStore]_vars

\* The search page: typing, the Enter key, the button, and the searches in
\* flight ending in any order.
NextPage ==
  \/ \E value \in Inputs : SetUsername(value)
  \/ PressEnter
  \/ ClickSearch
  \/ \E s \in DOMAIN searches : UserFetched(s)
  \/ \E s \in DOMAIN searches : AnalysisReturned(s)
  \/ \E s \in DOMAIN searches, err \in SearchErrors : SearchThrows(s, err)

SpecPage == Init /\ [][NextPage]_vars

\* Every awaited fetch settles: a search in flight takes its next step.
Settles ==
  \E s \in DOMAIN searches :
    \/ UserFetched(s)
    \/ AnalysisReturned(s)
    \/ \E err \in SearchErrors : SearchThrows(s, err)

FairSpecPage == SpecPage /\ WF_vars(Settles)

\* --------------------------------------------------------------------------
\* Claims about the response cache (checked under Spec)
\* --------------------------------------------------------------------------
FiveMinutes == 5 * 60 * 1000

\* Whether fetchFn was invoked in the call of frame f (0 or 1 times).
FetchFnCalls(f) == IF f.pc = "fetching" \/ f.hist # <<>> THEN 1 ELSE 0

\* The entry the call of frame f found was live when the call was made.
FoundLive(f) ==
  f.pc # "idle" /\ f.cached # None /\ f.now - f.cached[1].timestamp < FiveMinutes

C2_ExpiredEntryRefetched ==
  \A p \in Procs :
    LET f == frame[p] IN
    (f.pc # "idle" /\ f.cached # None /\ f.now - f.cached[1].timestamp > FiveMinutes)
    => /\ FetchFnCalls(f) = 1
       /\ f.pc = "returned" => f.result # Some(f.cached[1].data)
       /\ CacheKey(f.req[1]) \in DOMAIN apiCache

\* C2 witness: a call found an entry older than five minutes, refetched and
\* returned the new payload.
C2_Witness ==
  \E p \in Procs :
    LET f == frame[p] IN
    /\ f.pc = "returned" /\ f.cached # None
    /\ f.now - f.cached[1].timestamp > FiveMinutes
    /\ f.hist = <<OkResponse>>
    /\ f.result # Some(f.cached[1].data)

\* The step in which the miss of caller p ends with the data stored.
StoresResult(p) == frame[p].pc = "fetching" /\ frame'[p].pc = "returned"

\* C3 as stated: the entry a miss stores carries the clock value of the moment
\* it is stored, and so is live for a full five minutes from then.
C3_StoredWithClockAtStore ==
  [][\A p \in Procs :
       StoresResult(p) =>
         LET entry == apiCache'[CacheKey(frame[p].req[1])] IN
         /\ entry.timestamp = clock'
         /\ IsLive(Some(entry), clock' + FiveMinutes - 1)]_vars

\* C3 amended: a miss invokes fetch_fn once, reads the clock when the call is
\* made, before fetch_fn is invoked, stores the result under the key with that
\* clock value and returns the same result; the entry is live for five
\* minutes from the moment of the call, not from the moment of storing.
C3_MissStoresResultWithCallTime ==
  [][\A p \in Procs :
       /\ (frame[p].pc # "fetching" /\ frame'[p].pc = "fetching")
            => frame'[p].now = clock /\ FetchFnCalls(frame'[p]) = 1
       /\ StoresResult(p) =>
            LET f == frame'[p]
                key == CacheKey(f.req[1])
            IN  /\ key \in DOMAIN apiCache'
                /\ apiCache'[key] = [data |-> f.result[1], timestamp |-> frame[p].now]
                /\ f.now = frame[p].now
                /\ FetchFnCalls(f) = 1
                /\ serial' = serial + 1
                /\ IsLive(Some(apiCache'[key]), f.now + FiveMinutes - 1)
                /\ ~IsLive(Some(apiCache'[key]), f.now + FiveMinutes)]_vars

\* C3 witness: a miss stored its result after the clock had moved on: a later
\* call for the same key still found nothing, and the entry now in the cache
\* carries the earlier call's time.
C3_Witness ==
  \E p, q \in Procs :
    LET f == frame[p]
        g == frame[q]
    IN  /\ f.pc = "returned" /\ f.hist = <<OkResponse>>
        /\ g.pc # "idle" /\ g.req = f.req /\ g.cached = None /\ g.now > f.now
        /\ CacheKey(f.req[1]) \in DOMAIN apiCache
        /\ apiCache[CacheKey(f.req[1])] = [data |-> f.result[1], timestamp |-> f.now]

\* The call of frame f invoked fetch_fn, stored the result and returned it.
Fetched(f) == f.pc = "returned" /\ f.hist = <<OkResponse>>

\* The entry the call of frame f wrote: its payload with its timestamp.
EntryOf(f) == [data |-> f.result[1], timestamp |-> f.now]

\* C12: overlapping calls for the same absent or expired key are not
\* deduplicated.  Whenever a call stores, the key holds that call's payload
\* paired with that call's timestamp, whatever an overlapping call stored
\* before, and no other key changes; so after two callers have both fetched
\* the same key, the key holds the entry of one of them, whole; and a cached
\* payload is always one the upstream served.
C12_OverlappingCallsLastWriteWins ==
  /\ [](\A p, q \in Procs :
          (p # q /\ Fetched(frame[p]) /\ Fetched(frame[q]) /\ frame[p].req = frame[q].req)
          => apiCache[CacheKey(frame[p].req[1])] \in {EntryOf(frame[p]), EntryOf(frame[q])})
  /\ [](\A k \in DOMAIN apiCache :
          apiCache[k].data \in 1..serial /\ apiCache[k].timestamp <= clock)
  /\ [][\A p \in Procs :
          StoresResult(p) =>
            /\ serial' = serial + 1
            /\ frame'[p].result = Some(serial')
            /\ apiCache'[CacheKey(frame[p].req[1])] = EntryOf(frame'[p])
            /\ \A k \in DOMAIN apiCache :
                 k # CacheKey(frame[p].req[1]) => apiCache'[k] = apiCache[k]]_vars

\* C12 witness: two calls for the same absent key overlapped (the later caller
\* found no entry, so the earlier had not stored yet), both fetched, and the
\* earlier caller stored last: the key holds its payload with its timestamp.
C12_Witness ==
  \E p, q \in Procs :
    LET f == frame[p]
        g == frame[q]
    IN  /\ Fetched(f) /\ Fetched(g) /\ f.req = g.req
        /\ f.cached = None /\ g.cached = None
        /\ f.now < g.now
        /\ f.result[1] > g.result[1]
        /\ apiCache[CacheKey(f.req[1])] = EntryOf(f)

\* The step in which the fetch_fn of caller p fails.
FetchFails(p) == frame[p].pc = "fetching" /\ frame'[p].pc = "thrown"

\* The step in which caller p makes a new call.
Calls(p) == ncalls' = ncalls + 1 /\ frame'[p] # frame[p]

\* C21: when fetch_fn fails the cache is left as it was: no entry is created
\* for the key, an expired entry keeps its payload and timestamp, and the
\* call ends with the error and no value; a cached payload is always one the
\* upstream served, never an error; and the next call for the key, finding
\* the cache as the failed call found it, invokes fetch_fn again.
C21_FailedFetchLeavesCacheUnchanged ==
  /\ [][\A p \in Procs :
          FetchFails(p) =>
            /\ apiCache' = apiCache
            /\ MapGet(apiCache', CacheKey(frame[p].req[1]))
                 = MapGet(apiCache, CacheKey(frame[p].req[1]))
            /\ frame'[p].result = None
            /\ frame'[p].err # None]_vars
  /\ [](\A k \in DOMAIN apiCache : apiCache[k].data \in 1..serial)
  /\ [](\A p \in Procs : frame[p].pc = "returned" => frame[p].result[1] \in 1..serial)
  /\ [][\A p, q \in Procs :
          ( /\ Calls(p)
            /\ frame[q].pc = "thrown"
            /\ frame'[p].req = frame[q].req
            /\ MapGet(apiCache, CacheKey(frame[q].req[1])) = frame[q].cached )
          => frame'[p].pc = "fetching"]_vars

\* C21 witness: a call that found an expired entry failed, the entry is still
\* there with its payload and timestamp, and a later call for the key, by the
\* other caller, found the same entry and is fetching.
C21_Witness ==
  \E p, q \in Procs :
    LET f == frame[p]
        g == frame[q]
    IN  /\ f.pc = "thrown" /\ f.cached # None
        /\ apiCache[CacheKey(f.req[1])] = f.cached[1]
        /\ g.pc = "fetching" /\ g.req = f.req /\ g.cached = f.cached
        /\ g.now > f.now

\* --------------------------------------------------------------------------
\* Claims about the API client (checked under SpecClient)
\* --------------------------------------------------------------------------

\* The upstream requests the call of frame f has sent so far.
Attempts(f) == Len(f.hist) + (IF f.pc = "fetching" THEN 1 ELSE 0)

\* Every response the call of frame f has received is of the set S.
OnlyReceived(f, S) == f.hist # <<>> /\ \A i \in DOMAIN f.hist : f.hist[i] \in S

\* The call of frame f ended with response e.
EndedWith(f, e) == f.hist # <<>> /\ Last(f.hist) = e

\* The error kinds of the specification, as the thrown error shows them.
IsRateLimitExceeded(e) ==
  e.status = None /\ Includes(e.message, "API rate limit exceeded")
IsAuthenticationFailed(e) ==
  e.status = None /\ Includes(e.message, "authentication failed")
IsResourceNotFound(e) ==
  e.status = None /\ Includes(e.message, "not found")

\* The message has the text as one of its fragments.
Shows(message, text) == \E i \in DOMAIN message : message[i] = text

\* C4: a request that keeps receiving primary rate-limit responses is sent at
\* most 3 times (1 original + 2 retries); then RateLimitExceeded is raised,
\* with the reset time when the response gives one.
C4_PrimaryRateLimitAtMostThreeAttempts ==
  \A p \in Procs :
    LET f == frame[p] IN
    OnlyReceived(f, PrimaryRateLimits) =>
      /\ Attempts(f) <= 3
      /\ f.pc = "thrown" =>
           /\ IsRateLimitExceeded(f.err[1])
           /\ Last(f.hist).reset # None =>
                Shows(f.err[1].message, ToLocaleTimeString(Last(f.hist).reset[1] * 1000))

\* C5: a request that keeps receiving secondary rate-limit responses is sent
\* at most twice (one retry); then RateLimitExceeded is raised, as for a
\* primary rate limit.
C5_SecondaryRateLimitRetriedOnce ==
  \A p \in Procs :
    LET f == frame[p] IN
    OnlyReceived(f, {SecondaryRateLimit}) =>
      /\ Attempts(f) <= 2
      /\ f.pc = "thrown" => IsRateLimitExceeded(f.err[1])

C8_AuthenticationFailureNotRetried ==
  \A p \in Procs :
    LET f == frame[p] IN
    EndedWith(f, BadCredentials) =>
      /\ f.pc = "thrown"
      /\ f.retryCount = Len(f.hist) - 1
      /\ f.hist = <<BadCredentials>> => Attempts(f) = 1
      /\ IsAuthenticationFailed(f.err[1])
      /\ ~IsRateLimitExceeded(f.err[1]) /\ ~IsResourceNotFound(f.err[1])

\* C8 witness: fetchCommitDetails was answered 401 on its only attempt and threw.
C8_Witness ==
  \E p \in Procs :
    /\ frame[p].pc = "thrown"
    /\ frame[p].req = Some(CommitRequest("octocat", "hello", "abc123"))
    /\ frame[p].hist = <<BadCredentials>>

\* C9: a failure that is no rate limit, no 401 and no 404 is not retried and
\* is raised as it is (the original fault); and handling any error a fetch
\* operation raised once more, as analyze's catch does, raises the same error.
C9_OtherFailureRaisedUnchanged ==
  \A p \in Procs :
    LET f == frame[p] IN
    /\ (EndedWith(f, ServerError) \/ EndedWith(f, Forbidden)) =>
         /\ f.pc = "thrown"
         /\ f.retryCount = Len(f.hist) - 1
         /\ Len(f.hist) = 1 => Attempts(f) = 1
         /\ f.err = Some(Last(f.hist))
    /\ f.pc = "thrown" => handleApiError(f.err[1], AnalyzeContext) = f.err[1]

\* C9 witness: a request answered 403 without any rate-limit indication threw
\* that very error on its only attempt.
C9_Witness ==
  \E p \in Procs :
    /\ frame[p].pc = "thrown"
    /\ frame[p].hist = <<Forbidden>>
    /\ frame[p].err = Some(Forbidden)

\* --------------------------------------------------------------------------
\* Claims about analyzeCommitFarming (checked under SpecAnalyze)
\* --------------------------------------------------------------------------

\* C6: when a fetch made during analyze throws, analyze raises that error and
\* returns no result; a result is returned only when no fetch threw.
C6_FailedFetchAbortsAnalysis ==
  /\ analysis.thrown # None =>
       /\ analysis.pc = "failed"
       /\ analysis.result = None
       /\ analysis.error = analysis.thrown
  /\ analysis.result # None => analysis.thrown = None /\ analysis.error = None

\* C6 witness: the second commit-detail fetch threw after the listing, a
\* commit list and a commit detail had been fetched, and analyze failed.
C6_Witness ==
  /\ analysis.pc = "failed"
  /\ Len(analysis.fetches) = 4
  /\ Last(analysis.fetches).op = "commit"
  /\ analysis.totalAdditions > 0
  /\ analysis.thrown # None

\* C10: when the listing holds no repository that is not a fork, analyze
\* returns score 0 and four sub-scores 0 and fetches nothing but the listing.
C10_NoOwnRepoShortCircuits ==
  OwnRepos(upstream.repos) = <<>> =>
    /\ analysis.pc \notin {"commits", "details"}
    /\ analysis.pc = "done" =>
         /\ analysis.result # None
         /\ analysis.result[1].score.num = 0
         /\ analysis.result[1].metrics.commitFrequency.num = 0
         /\ analysis.result[1].metrics.codeQuality.num = 0
         /\ analysis.result[1].metrics.projectDiversity.num = 0
         /\ analysis.result[1].metrics.contributionImpact.num = 0
         /\ analysis.fetches = <<ReposRequest(analysis.username)>>

\* C10 witness: a listing of forks only was analyzed to the end.
C10_Witness ==
  /\ upstream.repos # <<>>
  /\ OwnRepos(upstream.repos) = <<>>
  /\ analysis.pc = "done"
  /\ analysis.result # None

\* C19: an analysis of the same username against the same upstream data
\* returns the same result (overall score and four sub-scores) as the last
\* analysis that returned, whether its fetches were served from the cache or
\* made again after the entries expired.
C19_SameDataSameResult ==
  (analysis.pc = "done" /\ analysis.previous # None) =>
    /\ analysis.result[1].score = analysis.previous[1].score
    /\ analysis.result[1].metrics = analysis.previous[1].metrics

\* C19 witness: a second analysis returned after the entries of the first had
\* expired: the listing in the cache is the one it fetched again.
C19_Witness ==
  /\ analysis.pc = "done"
  /\ analysis.previous # None
  /\ analysis.result[1].score # Zero
  /\ Len(analysis.fetches) > 2
  /\ apiCache[CacheKey(ReposRequest("octocat"))].timestamp >= FiveMinutes

\* --------------------------------------------------------------------------
\* Claims about the sampling and the metrics (checked under SpecSample)
\* --------------------------------------------------------------------------

\* The repositories of a listing that are no forks, in the listing's order.
NonForks(repos) == SelectSeq(repos, LAMBDA repo : ~repo.fork)

\* The first n elements of s, all of s when it has fewer.
FirstN(s, n) == [i \in 1..(IF Len(s) < n THEN Len(s) ELSE n) |-> s[i]]

\* The first 5 non-fork repositories of the upstream's listing, and the first
\* 5 commits of a repository's commit list.
Analyzed == FirstN(NonForks(upstream.repos), 5)
Sampled == FirstN(upstream.commits, 5)

RECURSIVE Flatten(_)
Flatten(ss) == IF ss = <<>> THEN <<>> ELSE ss[1] \o Flatten(Tail(ss))

IsPrefix(s, t) == Len(s) <= Len(t) /\ s = SubSeq(t, 1, Len(s))

\* The fetches of one repository: its commit list, then its sampled commits.
ExpectedFetchesOfRepo(repo) ==
  <<CommitsRequest(repo.full_name[1], repo.full_name[3])>> \o
  [j \in 1..Len(Sampled) |->
     CommitRequest(repo.full_name[1], repo.full_name[3], Sampled[j].sha)]

\* The fetches of one analysis of octocat that runs to its end.
ExpectedFetches ==
  <<ReposRequest("octocat")>> \o
  Flatten([i \in 1..Len(Analyzed) |-> ExpectedFetchesOfRepo(Analyzed[i])])

\* How many fetches of operation op the analysis has made.
FetchCount(op) ==
  Cardinality({i \in DOMAIN analysis.fetches : analysis.fetches[i].op = op})

\* C11: one analysis requests commit lists for at most 5 repositories, the
\* first 5 non-fork repositories in the listing's order, and for each of them
\* commit details for at most the first 5 commits of its commit list, in all
\* at most 1 + 5 + 25 fetches.
C11_SamplingBounds ==
  /\ IsPrefix(analysis.fetches, ExpectedFetches)
  /\ analysis.pc = "done" => analysis.fetches = ExpectedFetches
  /\ FetchCount("repos") <= 1
  /\ FetchCount("commits") <= 5
  /\ FetchCount("commit") <= 25
  /\ Len(analysis.fetches) <= 1 + 5 + 25

\* C11 witness: an analysis ran to its end against a listing with more than 5
\* non-fork repositories, a fork among its first 5 entries, and commit lists
\* of more than 5 commits: it made 31 fetches.
C11_Witness ==
  /\ analysis.pc = "done"
  /\ Len(NonForks(upstream.repos)) > 5
  /\ \E i \in 1..5 : upstream.repos[i].fork
  /\ Len(upstream.commits) > 5
  /\ Len(analysis.fetches) = 31

\* An analysis of a user with a repository of their own has returned.
ReturnedMetrics == analysis.pc = "done" /\ NonForks(upstream.repos) # <<>>

\* The fraction x is n / d.
IsFrac(x, n, d) == x.num * d = n * x.den

\* The timestamps of all commits of the commit lists of the analyzed
\* repositories, merged.
AllDates ==
  Flatten([i \in 1..Len(Analyzed) |->
             [k \in 1..Len(upstream.commits) |-> upstream.commits[k].date]])

\* The place of d[i] in ascending order, and d in ascending order.
Rank(d, i) ==
  Cardinality({j \in DOMAIN d : d[j] < d[i] \/ (d[j] = d[i] /\ j < i)}) + 1
Ascending(d) == [r \in 1..Len(d) |-> d[CHOOSE i \in DOMAIN d : Rank(d, i) = r]]

\* The adjacent pairs of d in ascending order less than five minutes apart.
SuspiciousCount(d) ==
  Cardinality({r \in 2..Len(d) : Ascending(d)[r] - Ascending(d)[r - 1] < FiveMinutes})

\* C13: with fewer than 2 commit timestamps over the analyzed repositories
\* Commit Frequency is 0.5; otherwise it is 1 - suspicious / n (never below
\* 0), n the number of timestamps of all analyzed repositories merged, and
\* suspicious the number of adjacent pairs, in ascending order, less than 5
\* minutes apart (exactly 5 minutes is not suspicious).
C13_CommitFrequency ==
  ReturnedMetrics =>
    LET d == AllDates
        n == Len(d)
        commitFrequency == analysis.result[1].metrics.commitFrequency
    IN  /\ n < 2 => IsFrac(commitFrequency, 1, 2)
        /\ n >= 2 =>
             /\ SuspiciousCount(d) < n
             /\ IsFrac(commitFrequency, n - SuspiciousCount(d), n)
        /\ FracLeq(Zero, commitFrequency)
        /\ ( /\ n = 3
              /\ Ascending(d)[2] = Ascending(d)[1] + Minute
              /\ Ascending(d)[3] = Ascending(d)[1] + 10 * Minute )
             => IsFrac(commitFrequency, 2, 3)
        /\ (n = 2 /\ Ascending(d)[2] - Ascending(d)[1] = FiveMinutes)
             => IsFrac(commitFrequency, 1, 1)

\* C13 witness: the timestamps [T, T + 1 min, T + 10 min], listed newest
\* first, gave 2/3.
C13_Witness ==
  /\ ReturnedMetrics
  /\ AllDates = <<10 * Minute, Minute, 0>>
  /\ analysis.result[1].metrics.commitFrequency = Frac(2, 3)

\* The stats of the sampled commit details of the analyzed repositories; a
\* detail without stats is None.
SampledStats ==
  Flatten([i \in 1..Len(Analyzed) |->
             [j \in 1..Len(Sampled) |-> StatsOf(Sampled[j].sha)]])

\* The sum of a field over the stats that are there.
RECURSIVE SumStats(_, _)
SumStats(ss, field) ==
  IF ss = <<>> THEN 0
  ELSE (IF ss[1] = None THEN 0 ELSE ss[1][1][field]) + SumStats(Tail(ss), field)

\* C14: additions and deletions are summed over the sampled commit details
\* that carry stats; when both sums are zero Code Quality is 0.5; otherwise,
\* with ratio = deletions / (additions + deletions), it is 0.3 when ratio <
\* 0.1, 0.9 when ratio > 0.5, and 0.6 otherwise, at exactly 0.1 and exactly
\* 0.5 too.
C14_CodeQuality ==
  ReturnedMetrics =>
    LET additions == SumStats(SampledStats, "additions")
        deletions == SumStats(SampledStats, "deletions")
        codeQuality == analysis.result[1].metrics.codeQuality
    IN  /\ analysis.totalAdditions = additions
        /\ analysis.totalDeletions = deletions
        /\ (additions = 0 /\ deletions = 0) => IsFrac(codeQuality, 1, 2)
        /\ additions + deletions > 0 =>
             /\ 10 * deletions < additions + deletions => IsFrac(codeQuality, 3, 10)
             /\ 2 * deletions > additions + deletions => IsFrac(codeQuality, 9, 10)
             /\ ( /\ 10 * deletions >= additions + deletions
                  /\ 2 * deletions <= additions + deletions )
                  => IsFrac(codeQuality, 6, 10)

\* C14 witness: the sampled commits delete exactly half of the changed lines,
\* the commits past the fifth, which are not sampled, delete more: 0.6.
C14_Witness ==
  /\ ReturnedMetrics
  /\ Len(upstream.commits) > 5
  /\ \E k \in 6..Len(upstream.commits) :
       StatsOf(upstream.commits[k].sha) = Some([additions |-> 10, deletions |-> 90])
  /\ analysis.totalAdditions > 0
  /\ analysis.totalDeletions = analysis.totalAdditions
  /\ analysis.result[1].metrics.codeQuality = Frac(6, 10)

\* The sum of a field over the repositories of a list.
RECURSIVE SumRepos(_, _)
SumRepos(repos, field) ==
  IF repos = <<>> THEN 0 ELSE repos[1][field] + SumRepos(Tail(repos), field)

\* C15: Contribution Impact comes from the stars and the forks summed over
\* all non-fork repositories of the listing, not only the analyzed ones: 1.0
\* when stars > 100 or forks > 20, otherwise 0.7 when stars > 10 or forks > 5,
\* otherwise 0.3, every comparison strict.
C15_ContributionImpact ==
  ReturnedMetrics =>
    LET stars == SumRepos(NonForks(upstream.repos), "stargazers_count")
        forks == SumRepos(NonForks(upstream.repos), "forks_count")
        contributionImpact == analysis.result[1].metrics.contributionImpact
    IN  /\ (stars > 100 \/ forks > 20) => IsFrac(contributionImpact, 1, 1)
        /\ (~(stars > 100 \/ forks > 20) /\ (stars > 10 \/ forks > 5))
             => IsFrac(contributionImpact, 7, 10)
        /\ (~(stars > 100 \/ forks > 20) /\ ~(stars > 10 \/ forks > 5))
             => IsFrac(contributionImpact, 3, 10)
        /\ (stars = 100 /\ forks <= 20) => IsFrac(contributionImpact, 7, 10)
        /\ (stars = 10 /\ forks <= 5) => IsFrac(contributionImpact, 3, 10)

\* C15 witness: six non-fork repositories of 20 stars each gave 1.0, where the
\* five analyzed ones alone have 100 stars.
C15_Witness ==
  /\ ReturnedMetrics
  /\ Len(NonForks(upstream.repos)) > 5
  /\ SumRepos(Analyzed, "stargazers_count") = 100
  /\ SumRepos(NonForks(upstream.repos), "stargazers_count") > 100
  /\ SumRepos(NonForks(upstream.repos), "forks_count") <= 20
  /\ analysis.result[1].metrics.contributionImpact = One

\* C16: Project Diversity is min(1, repoCount / 10), repoCount the number of
\* all non-fork repositories of the listing, not capped at the 5 analyzed: 3
\* repositories give 0.3, 10 or more give 1.0.
C16_ProjectDiversity ==
  ReturnedMetrics =>
    LET repoCount == Len(NonForks(upstream.repos))
        projectDiversity == analysis.result[1].metrics.projectDiversity
    IN  /\ repoCount < 10 => IsFrac(projectDiversity, repoCount, 10)
        /\ repoCount >= 10 => IsFrac(projectDiversity, 1, 1)
        /\ repoCount = 3 => projectDiversity = Frac(3, 10)

\* C16 witness: eleven non-fork repositories, of which five were analyzed,
\* gave 1.0.
C16_Witness ==
  /\ ReturnedMetrics
  /\ Len(NonForks(upstream.repos)) = 11
  /\ Len(analysis.reposToAnalyze) = 5
  /\ analysis.result[1].metrics.projectDiversity = One

\* The fraction x lies in [0, 1].
InUnit(x) == x.den > 0 /\ 0 <= x.num /\ x.num <= x.den

\* C17: for every analysis that returns a result, each of the four sub-scores
\* lies in [0, 1], the overall score is 0.4 * commitFrequency + 0.3 *
\* codeQuality + 0.1 * projectDiversity + 0.2 * contributionImpact of the
\* returned sub-scores, and the overall score lies in [0, 1].
C17_ScoreIsWeightedSumInUnit ==
  analysis.pc = "done" =>
    LET r == analysis.result[1]
        m == r.metrics
        \* a common denominator of the four sub-scores, and w * x over it
        K == 10 * m.commitFrequency.den
        Part(x, w) == w * x.num * (K \div x.den)
    IN  /\ InUnit(m.commitFrequency) /\ InUnit(m.codeQuality)
        /\ InUnit(m.projectDiversity) /\ InUnit(m.contributionImpact)
        /\ \A x \in {m.commitFrequency, m.codeQuality, m.projectDiversity,
                     m.contributionImpact} : K % x.den = 0
        /\ r.score.num * 10 * K =
             r.score.den * ( Part(m.commitFrequency, 4) + Part(m.codeQuality, 3)
                             + Part(m.projectDiversity, 1)
                             + Part(m.contributionImpact, 2) )
        /\ InUnit(r.score)

\* C17 witness: an analysis returned commitFrequency 2/3, codeQuality 0.3,
\* projectDiversity 0.1 and contributionImpact 0.3, and the score
\* 0.4 * 2/3 + 0.09 + 0.01 + 0.06 = 32/75.
C17_Witness ==
  /\ analysis.pc = "done"
  /\ analysis.result[1].metrics =
       [commitFrequency |-> Frac(2, 3), codeQuality |-> Frac(3, 10),
        projectDiversity |-> Frac(1, 10), contributionImpact |-> Frac(3, 10)]
  /\ analysis.result[1].score = Frac(32, 75)

\* --------------------------------------------------------------------------
\* Claims about the ScoreCard component (checked under SpecCard)
\* --------------------------------------------------------------------------

\* The band of a 0-100 integer, by the rating table.
BandOf(n) ==
  IF n >= 80 THEN "Real Developer"
  ELSE IF n >= 60 THEN "Solid Contributor"
  ELSE IF n >= 40 THEN "Average Coder"
  ELSE IF n >= 20 THEN "Potential Farmer"
  ELSE "Commit Farmer"

\* C18: the band shown for a score is the band the rating table gives the
\* 0-100 integer shown for it: 80-100 Real Developer, 60-79 Solid Contributor,
\* 40-59 Average Coder, 20-39 Potential Farmer, 0-19 Commit Farmer.
C18_BandAgreesWithDisplayedInteger ==
  card.score # None =>
    /\ card.scoreValue[1] \in 0..100
    /\ card.rating = Some(BandOf(card.scoreValue[1]))

\* --------------------------------------------------------------------------
\* Claims about updateUserAnalysis (checked under SpecStore)
\* --------------------------------------------------------------------------

\* The last n elements of s in their order, all of s when it has fewer.
LastN(s, n) ==
  LET k == IF Len(s) < n THEN Len(s) ELSE n
  IN  [i \in 1..k |-> s[Len(s) - k + i]]

\* C20: after any sequence of updateUserAnalysis calls the document of an
\* existing user holds as lastAnalysis the analysis written last and as
\* analysisHistory at most 10 entries, the analyses written last in the order
\* they were written; a call for a user without a document throws 'User not
\* found' and writes nothing.
C20_HistoryKeepsLastTen ==
  /\ \A uid \in DOMAIN users :
       LET w == written[uid]
           document == users[uid]
       IN  /\ document.uid = uid
           /\ w = <<>> => document.lastAnalysis = None /\ document.analysisHistory = None
           /\ w # <<>> =>
                /\ document.lastAnalysis = Some(w[Len(w)])
                /\ document.analysisHistory # None
                /\ Len(document.analysisHistory[1]) <= 10
                /\ document.analysisHistory[1] = LastN(w, 10)
  /\ DOMAIN users = DOMAIN InitialUsers
  /\ \A uid \in Uids \ DOMAIN users : written[uid] = <<>>
  /\ (update.pc # "idle" /\ update.uid \notin DOMAIN users) =>
       update.pc \in {"reading", "thrown"}
  /\ update.pc = "thrown" =>
       update.error = Some("User not found") /\ update.uid \notin DOMAIN users
  /\ update.pc = "done" =>
       /\ update.uid \in DOMAIN users
       /\ users[update.uid].lastAnalysis = update.analysisData

\* C20 witness: the eleventh analysis was written for u1: the history holds
\* the second to the eleventh.
C20_Witness ==
  /\ update.pc = "done"
  /\ Len(written["u1"]) = 11
  /\ Len(users["u1"].analysisHistory[1]) = 10
  /\ users["u1"].analysisHistory[1][1] = written["u1"][2]
  /\ users["u1"].analysisHistory[1][10] = written["u1"][11]

\* --------------------------------------------------------------------------
\* Claims about the order of the fetches (checked under SpecAnalyze)
\* --------------------------------------------------------------------------

\* The analysis is waiting for a fetch.
Awaiting(a) == a.pc \in {"repos", "commits", "details"}

\* C22: within one analysis the fetches are issued one at a time in a fixed
\* order: the listing, then for each analyzed repository in listing order its
\* commit list followed by its sampled commit details in commit-list order.
\* The one fetch in flight is the next of that order, a step of the analysis
\* ends exactly that fetch, and after the first failing fetch no further fetch
\* is issued.
C22_FetchesOneAtATimeInOrder ==
  /\ [](IsPrefix(analysis.fetches, ExpectedFetches))
  /\ [](Awaiting(analysis) =>
          /\ Len(analysis.fetches) < Len(ExpectedFetches)
          /\ PendingRequest(analysis) = ExpectedFetches[Len(analysis.fetches) + 1])
  /\ [](analysis.thrown # None => analysis.pc = "failed")
  /\ [][(analysis' # analysis /\ nruns' = nruns) =>
          /\ Awaiting(analysis)
          /\ analysis'.fetches = Append(analysis.fetches, PendingRequest(analysis))]_vars
  /\ [][(analysis.pc = "failed" /\ analysis' # analysis) =>
          /\ nruns' = nruns + 1
          /\ analysis'.fetches = <<>>
          /\ analysis'.thrown = None]_vars

\* C22 witness: the listing, the commit list of the first repository and its
\* two commit details were fetched in that order, then the commit list of the
\* second repository failed, and the analysis stopped there.
C22_Witness ==
  /\ analysis.pc = "failed"
  /\ Len(analysis.fetches) = 5
  /\ analysis.fetches = SubSeq(ExpectedFetches, 1, 5)
  /\ analysis.fetches[2].op = "commits"
  /\ analysis.fetches[3].op = "commit"
  /\ analysis.fetches[4].op = "commit"
  /\ analysis.fetches[5].op = "commits"
  /\ analysis.fetches[5] # analysis.fetches[2]

\* ------------------------------- claims about the search page (SpecPage)
\* The results panel is rendered: {user && analysis && (...)}.
PanelShown == page.user # None /\ page.analysis # None

\* The searches still awaiting a fetch.
InFlight == {s \in DOMAIN searches : searches[s].pc # "ended"}

\* C23: the results panel, shown when both user and analysis are set, always
\* shows a profile and an analysis of the same search, also when a second
\* search is started with the Enter key while an earlier one is loading: the
\* analysis shown is the analysis of the user whose profile is shown.  (The
\* other half of the claim, that loading ends up false once the searches have
\* completed or failed, is C23_LoadingEndsFalse below.)
C23_PanelShowsOneSearch ==
  PanelShown =>
    \E username \in Inputs :
      /\ page.user = Some(GitHubUser(username))
      /\ page.analysis = Some(AnalysisOf(username))

\* The second half of C23: when no search is in flight loading is false, and
\* under FairSpecPage, where every awaited fetch settles, loading always
\* becomes false again.
C23_LoadingEndsFalse ==
  /\ [](InFlight = {} => ~page.loading)
  /\ (page.loading ~> ~page.loading)

====
